---------------------------- MODULE Spec2Model ----------------------------
(***************************************************************************)
(* Model of rebuild_transparency.py: the per-pixel unblend function        *)
(* calculate_transparency, the image pipeline                              *)
(* convert_image_to_transparent and the command-line entry point.          *)
(*                                                                         *)
(* Python's float is IEEE-754 binary64.  The arithmetic of lines 63-67 is  *)
(* modelled bit-exactly: a float is sign, odd integer significand and      *)
(* binary exponent, every operation computes the exact result and rounds   *)
(* it to 53 significant bits, ties to even.  Significands exceed the       *)
(* range of TLC's 32-bit integers, so they are kept as little-endian       *)
(* sequences of 15-bit limbs.                                              *)
(***************************************************************************)
EXTENDS Integers, Sequences, FiniteSets

(***************************************************************************)
(* Natural numbers of arbitrary size: <<>> is 0, the last limb is nonzero. *)
(***************************************************************************)
LimbBits == 15

LimbBase == 2^LimbBits

Limb(a, i) == IF i <= Len(a) THEN a[i] ELSE 0

MaxOf(x, y) == IF x >= y THEN x ELSE y

MinOf(x, y) == IF x <= y THEN x ELSE y

RECURSIVE BNorm(_)
BNorm(a) ==
    IF a = <<>> THEN <<>>
    ELSE IF a[Len(a)] = 0 THEN BNorm(SubSeq(a, 1, Len(a) - 1))
    ELSE a

RECURSIVE BFromInt(_)
BFromInt(n) ==
    IF n = 0 THEN <<>>
    ELSE <<n % LimbBase>> \o BFromInt(n \div LimbBase)

RECURSIVE BToInt(_)
BToInt(a) ==
    IF a = <<>> THEN 0
    ELSE a[1] + LimbBase * BToInt(Tail(a))

RECURSIVE BCmpFrom(_, _, _)
BCmpFrom(a, b, i) ==
    IF i = 0 THEN 0
    ELSE IF a[i] > b[i] THEN 1
    ELSE IF a[i] < b[i] THEN -1
    ELSE BCmpFrom(a, b, i - 1)

BCmp(a, b) ==
    IF Len(a) > Len(b) THEN 1
    ELSE IF Len(a) < Len(b) THEN -1
    ELSE BCmpFrom(a, b, Len(a))

RECURSIVE BAddFrom(_, _, _, _)
BAddFrom(a, b, i, carry) ==
    IF i > Len(a) /\ i > Len(b)
    THEN IF carry = 0 THEN <<>> ELSE <<carry>>
    ELSE LET s == Limb(a, i) + Limb(b, i) + carry
         IN  <<s % LimbBase>> \o BAddFrom(a, b, i + 1, s \div LimbBase)

BAdd(a, b) == BAddFrom(a, b, 1, 0)

RECURSIVE BSubFrom(_, _, _, _)
BSubFrom(a, b, i, borrow) ==
    IF i > Len(a) THEN <<>>
    ELSE LET d == a[i] - Limb(b, i) - borrow
         IN  IF d < 0
             THEN <<d + LimbBase>> \o BSubFrom(a, b, i + 1, 1)
             ELSE <<d>> \o BSubFrom(a, b, i + 1, 0)

\* a - b for a >= b
BSub(a, b) == IF b = <<>> THEN a ELSE BNorm(BSubFrom(a, b, 1, 0))

RECURSIVE BMulSmallFrom(_, _, _, _)
BMulSmallFrom(a, k, i, carry) ==
    IF i > Len(a)
    THEN IF carry = 0 THEN <<>> ELSE <<carry>>
    ELSE LET p == a[i] * k + carry
         IN  <<p % LimbBase>> \o BMulSmallFrom(a, k, i + 1, p \div LimbBase)

\* a * k for 0 <= k < LimbBase
BMulSmall(a, k) == IF k = 0 THEN <<>> ELSE BMulSmallFrom(a, k, 1, 0)

Zeros(n) == [i \in 1..n |-> 0]

RECURSIVE BMulFrom(_, _, _)
BMulFrom(a, b, j) ==
    IF j > Len(b) THEN <<>>
    ELSE LET row == BMulSmall(a, b[j])
         IN  BAdd(IF row = <<>> THEN <<>> ELSE Zeros(j - 1) \o row,
                  BMulFrom(a, b, j + 1))

BMul(a, b) == BMulFrom(a, b, 1)

\* a * 2^n
BShl(a, n) ==
    IF a = <<>> \/ n = 0 THEN a
    ELSE Zeros(n \div LimbBits) \o BMulSmall(a, 2^(n % LimbBits))

\* floor(a / 2^n)
BShr(a, n) ==
    LET k == n \div LimbBits
        s == n % LimbBits
        lo == 2^s
        hi == 2^(LimbBits - s)
    IN  IF k >= Len(a) THEN <<>>
        ELSE BNorm([i \in 1..(Len(a) - k) |->
                      (a[i + k] \div lo) + (Limb(a, i + k + 1) % lo) * hi])

RECURSIVE IntBitLen(_)
IntBitLen(n) == IF n = 0 THEN 0 ELSE 1 + IntBitLen(n \div 2)

BBitLen(a) ==
    IF a = <<>> THEN 0
    ELSE (Len(a) - 1) * LimbBits + IntBitLen(a[Len(a)])

\* bit n (counted from 0) of a
BBit(a, n) == (Limb(a, n \div LimbBits + 1) \div 2^(n % LimbBits)) % 2

\* whether a is a multiple of 2^n
BLowZero(a, n) ==
    /\ \A i \in 1..MinOf(n \div LimbBits, Len(a)) : a[i] = 0
    /\ Limb(a, n \div LimbBits + 1) % 2^(n % LimbBits) = 0

RECURSIVE IntTrailingZeros(_)
IntTrailingZeros(n) == IF n % 2 = 1 THEN 0 ELSE 1 + IntTrailingZeros(n \div 2)

RECURSIVE BTrailingZeros(_)
\* the number of trailing zero bits of a > 0
BTrailingZeros(a) ==
    IF a[1] = 0 THEN LimbBits + BTrailingZeros(Tail(a))
    ELSE IntTrailingZeros(a[1])

RECURSIVE QFix(_, _, _)
QFix(r, d, q) ==
    IF BCmp(BMulSmall(d, q), r) > 0 THEN QFix(r, d, q - 1) ELSE q

\* floor(r / d) for r < d * LimbBase and d's top limb >= LimbBase / 2
QDigit(r, d) ==
    IF BCmp(r, d) < 0 THEN 0
    ELSE LET n == Len(d)
             top == Limb(r, n + 1) * LimbBase + r[n]
         IN  QFix(r, d, MinOf(LimbBase - 1, top \div d[n]))

RECURSIVE BDivFrom(_, _, _, _)
\* long division of the limbs i..1 of a by d, the remainder so far being r
BDivFrom(a, d, i, r) ==
    IF i = 0 THEN <<<<>>, r>>
    ELSE LET r1 == BNorm(<<a[i]>> \o r)
             q == QDigit(r1, d)
             rest == BDivFrom(a, d, i - 1, BSub(r1, BMulSmall(d, q)))
         IN  <<Append(rest[1], q), rest[2]>>

\* <<floor(a / b), whether a is a multiple of b>> for b > 0
BDivMod(a, b) ==
    LET s == LimbBits - IntBitLen(b[Len(b)])
        an == BShl(a, s)
        qr == BDivFrom(an, BShl(b, s), Len(an), <<>>)
    IN  <<BNorm(qr[1]), qr[2] = <<>> >>

(***************************************************************************)
(* Python float (IEEE-754 binary64).  The value of f is                    *)
(* (-1)^neg * man * 2^exp; man is odd, or zero with exp = 0, and has at    *)
(* most MantBits bits.  The values of this program stay far inside the     *)
(* normal exponent range, so overflow, subnormals, infinities and NaN do   *)
(* not occur and are not represented; the sign of a zero is not kept (it   *)
(* is not observable through int()).                                       *)
(***************************************************************************)
MantBits == 53

FZero == [neg |-> FALSE, man |-> <<>>, exp |-> 0]

\* the float whose value is exactly n * 2^e, for n of at most MantBits bits
FCanon(neg, n, e) ==
    IF n = <<>> THEN FZero
    ELSE LET tz == BTrailingZeros(n)
         IN  [neg |-> neg, man |-> IF tz = 0 THEN n ELSE BShr(n, tz), exp |-> e + tz]

\* the exact value (n + t) * 2^e, 0 <= t < 1 and t > 0 iff sticky, rounded to
\* MantBits significant bits, to nearest, ties to even
FRoundWide(neg, n, e, sticky) ==
    LET d == BBitLen(n) - MantBits
        q == BShr(n, d)
        guard == BBit(n, d - 1) = 1
        rest == sticky \/ ~BLowZero(n, d - 1)
        up == guard /\ (rest \/ BBit(q, 0) = 1)
    IN  FCanon(neg, IF up THEN BAdd(q, <<1>>) ELSE q, e + d)

FRound(neg, n, e, sticky) ==
    LET len == BBitLen(n)
    IN  IF len <= MantBits /\ ~sticky THEN FCanon(neg, n, e)
        ELSE IF len <= MantBits
        THEN FRoundWide(neg, BShl(n, MantBits + 2 - len), e - (MantBits + 2 - len), TRUE)
        ELSE FRoundWide(neg, n, e, sticky)

\* float(n) for an int n whose magnitude is below LimbBase^2
FFromInt(n) == FCanon(n < 0, BFromInt(IF n < 0 THEN -n ELSE n), 0)

FNeg(a) == IF a.man = <<>> THEN a ELSE [a EXCEPT !.neg = ~a.neg]

\* a + b
FAdd(a, b) ==
    LET e == MinOf(a.exp, b.exp)
        x == BShl(a.man, a.exp - e)
        y == BShl(b.man, b.exp - e)
        c == BCmp(x, y)
    IN  IF a.neg = b.neg THEN FRound(a.neg, BAdd(x, y), e, FALSE)
        ELSE IF c = 0 THEN FZero
        ELSE IF c > 0 THEN FRound(a.neg, BSub(x, y), e, FALSE)
        ELSE FRound(b.neg, BSub(y, x), e, FALSE)

\* a - b
FSub(a, b) == FAdd(a, FNeg(b))

\* a * b
FMul(a, b) == FRound(a.neg # b.neg, BMul(a.man, b.man), a.exp + b.exp, FALSE)

\* a / b for b # 0 (Python raises ZeroDivisionError when b is zero: see
\* calculate_transparency)
FDiv(a, b) ==
    IF a.man = <<>> THEN FZero
    ELSE LET k == MaxOf(0, BBitLen(b.man) + MantBits + 2 - BBitLen(a.man))
             qr == BDivMod(BShl(a.man, k), b.man)
         IN  FRound(a.neg # b.neg, qr[1], a.exp - b.exp - k, ~qr[2])

\* int(a): truncation toward zero
FTrunc(a) ==
    LET mag == IF a.exp >= 0 THEN BToInt(BShl(a.man, a.exp))
               ELSE BToInt(BShr(a.man, -a.exp))
    IN  IF a.neg THEN -mag ELSE mag

(***************************************************************************)
(* rebuild_transparency.py                                                 *)
(***************************************************************************)
\* sys.float_info.epsilon = 2^-52
FloatEpsilon == [neg |-> FALSE, man |-> <<1>>, exp |-> -(MantBits - 1)]

\* the literal 0.5
FHalf == [neg |-> FALSE, man |-> <<1>>, exp |-> -1]

EPSILON_HALF == FSub(FHalf, FloatEpsilon)

\* what a call yields when it raises instead of returning
ZeroDivisionError == <<"ZeroDivisionError">>

\* mutant: the blue channel left out of the minimum
Min3_WithoutBlue(r, g, b) == MinOf(r, g)

\* mutant: the maximum taken for the minimum
Min3_Max(r, g, b) == MaxOf(r, MaxOf(g, b))

Min3(r, g, b) == MinOf(r, MinOf(g, b))

\* mutant: the white removed but the result not divided by ratio
Restore_NotDivided(v, ratio) ==
    FTrunc(FAdd(FSub(FFromInt(v),
                     FMul(FSub(FFromInt(1), ratio), FFromInt(255))),
                EPSILON_HALF))

\* int((v - (1 - ratio) * 255) / (ratio) + EPSILON_HALF)
Restore(v, ratio) ==
    FTrunc(FAdd(FDiv(FSub(FFromInt(v),
                          FMul(FSub(FFromInt(1), ratio), FFromInt(255))),
                     ratio),
                EPSILON_HALF))

\* mutant: the test for alpha == 0 left out
calculate_transparency_NoZeroCheck(r, g, b) ==
    LET alpha == 255 - Min3(r, g, b)
        ratio == FDiv(FFromInt(alpha), FFromInt(255))
        new_r == Restore(r, ratio)
        new_g == Restore(g, ratio)
        new_b == Restore(b, ratio)
    IN  IF ratio = FZero THEN ZeroDivisionError
        ELSE <<new_r, new_g, new_b, alpha>>

\* mutant: ratio = alpha / 256
calculate_transparency_Div256(r, g, b) ==
    LET alpha == 255 - Min3(r, g, b)
        ratio == FDiv(FFromInt(alpha), FFromInt(256))
        new_r == Restore(r, ratio)
        new_g == Restore(g, ratio)
        new_b == Restore(b, ratio)
    IN  IF alpha = 0 THEN <<0, 0, 0, 0>>
        ELSE IF ratio = FZero THEN ZeroDivisionError
        ELSE <<new_r, new_g, new_b, alpha>>

\* The result is the returned tuple (R, G, B, alpha), or ZeroDivisionError:
\* the only divisor that is not a literal is ratio, and float division
\* raises when it is 0.0.
calculate_transparency(r, g, b) ==
    LET alpha == 255 - Min3(r, g, b)
        ratio == FDiv(FFromInt(alpha), FFromInt(255))
        new_r == Restore(r, ratio)
        new_g == Restore(g, ratio)
        new_b == Restore(b, ratio)
    IN  IF alpha = 0 THEN <<0, 0, 0, 0>>
        ELSE IF ratio = FZero THEN ZeroDivisionError
        ELSE <<new_r, new_g, new_b, alpha>>

(***************************************************************************)
(* The Pillow calls the pipeline makes, on images small enough to          *)
(* enumerate.  An image is its mode, whether its info dictionary has a     *)
(* "transparency" entry, its size <<width, height>> and its pixels in      *)
(* row-major order as getdata() yields them.                               *)
(***************************************************************************)
MaxPixels == 2

MaxArgs == 3

ColorSamples == {<<255, 255, 255>>, <<0, 0, 0>>, <<255, 128, 128>>, <<30, 5, 80>>}

GraySamples == {0, 128, 255}

AlphaSamples == {0, 255}

\* the palette of the mode "P" images
Palette == <<<<255, 255, 255>>, <<0, 0, 0>>, <<255, 128, 128>>>>

Modes == {"RGB", "RGBA", "L", "LA", "P"}

RawPixels(mode) ==
    CASE mode = "RGB" -> ColorSamples
      [] mode = "RGBA" -> {<<c[1], c[2], c[3], a>> : c \in ColorSamples, a \in AlphaSamples}
      [] mode = "L" -> {<<l>> : l \in GraySamples}
      [] mode = "LA" -> {<<l, a>> : l \in GraySamples, a \in AlphaSamples}
      [] mode = "P" -> {<<i>> : i \in 1..Len(Palette)}

Sizes == {sz \in (1..MaxPixels) \X (1..MaxPixels) : sz[1] * sz[2] <= MaxPixels}

\* a PNG of mode RGB, L or P may carry a tRNS chunk, read into info["transparency"]
InfoChoices(mode) == IF mode \in {"RGBA", "LA"} THEN {FALSE} ELSE BOOLEAN

Images ==
    UNION {UNION {UNION {
        {[mode |-> m, transparency |-> t, size |-> sz, data |-> d] :
            d \in [1..(sz[1] * sz[2]) -> RawPixels(m)]} :
        t \in InfoChoices(m)} : sz \in Sizes} : m \in Modes}

NoImage == [mode |-> "none", transparency |-> FALSE, size |-> <<0, 0>>, data |-> <<>>]

\* what the file at input_file holds: not an image Pillow recognises (or no
\* file at all), an image, or an image whose pixel data is cut short
InputFiles ==
    {[recognized |-> FALSE, truncated |-> FALSE, image |-> NoImage]} \cup
    {[recognized |-> TRUE, truncated |-> t, image |-> im] : t \in BOOLEAN, im \in Images}

\* one pixel of img.convert("RGB")
ConvertPixel(mode, px) ==
    CASE mode = "RGB" -> px
      [] mode = "RGBA" -> <<px[1], px[2], px[3]>>
      [] mode = "L" -> <<px[1], px[1], px[1]>>
      [] mode = "LA" -> <<px[1], px[1], px[1]>>
      [] mode = "P" -> Palette[px[1]]

\* img.convert("RGB")
ConvertRGB(im) ==
    [mode |-> "RGB", transparency |-> im.transparency, size |-> im.size,
     data |-> [i \in 1..Len(im.data) |-> ConvertPixel(im.mode, im.data[i])]]

\* mutant: width and height exchanged
ImageNew_Transposed(size) ==
    [mode |-> "RGBA", transparency |-> FALSE, size |-> <<size[2], size[1]>>,
     data |-> [i \in 1..(size[1] * size[2]) |-> <<0, 0, 0, 0>>]]

\* Image.new("RGBA", size): transparent black
ImageNew(size) ==
    [mode |-> "RGBA", transparency |-> FALSE, size |-> size,
     data |-> [i \in 1..(size[1] * size[2]) |-> <<0, 0, 0, 0>>]]

\* putdata stores each band as an 8-bit value
Clip8(x) == IF x < 0 THEN 0 ELSE IF x > 255 THEN 255 ELSE x

\* im.putdata(pixels): the pixels in row-major order from the top left
PutData(im, pixels) ==
    [im EXCEPT !.data = [i \in 1..Len(im.data) |->
        IF i <= Len(pixels) THEN [k \in 1..4 |-> Clip8(pixels[i][k])] ELSE im.data[i]]]

(***************************************************************************)
(* State                                                                   *)
(***************************************************************************)
VARIABLES
    pc,               \* where the run is
    argc,             \* len(sys.argv) - 1
    input,            \* the file at input_file
    writable,         \* whether output_file can be written
    img,              \* the image Image.open returned
    handle,           \* img's file: "none", "open" or "closed"
    transparent_img,  \* the image built from the restored pixels
    stdout,           \* the lines printed, in order
    output,           \* the image in the file at output_file, NoImage if none was written
    error,            \* the exception that ended the run, "none" if none
    status,           \* the exit status, once pc = "exit"
    rgb,              \* the arguments of a single call of calculate_transparency
    result            \* what that call returned

vars == <<pc, argc, input, writable, img, handle, transparent_img, stdout, output,
          error, status, rgb, result>>

NoCall == <<>>

Init ==
    /\ pc = "main"
    /\ argc \in 0..MaxArgs
    /\ input \in InputFiles
    /\ writable \in BOOLEAN
    /\ img = NoImage
    /\ handle = "none"
    /\ transparent_img = NoImage
    /\ stdout = <<>>
    /\ output = NoImage
    /\ error = "none"
    /\ status = 0
    /\ rgb = NoCall
    /\ result = NoCall

\* mutant: only the modes with an alpha band are recognised
HasTransparency_AlphaModesOnly(im) == im.mode \in {"RGBA", "LA"}

\* img.mode in ("RGBA", "LA") or (img.mode == "P" and "transparency" in img.info)
HasTransparency(im) ==
    im.mode \in {"RGBA", "LA"} \/ (im.mode = "P" /\ im.transparency)

\* an uncaught exception: the traceback is printed and the exit status is 1
Raise(exc) ==
    /\ error' = exc
    /\ status' = 1
    /\ pc' = "exit"

\* mutant: only too few arguments are refused
Main_TooFewOnly ==
    /\ pc = "main"
    /\ IF argc < 2
       THEN /\ stdout' = Append(stdout, "usage")
            /\ status' = 1
            /\ pc' = "exit"
       ELSE /\ pc' = "open"
            /\ UNCHANGED <<stdout, status>>
    /\ UNCHANGED <<argc, input, writable, img, handle, transparent_img, output,
                   error, rgb, result>>

\* if len(sys.argv) != 3: print usage, sys.exit(1)
Main ==
    /\ pc = "main"
    /\ IF argc # 2
       THEN /\ stdout' = Append(stdout, "usage")
            /\ status' = 1
            /\ pc' = "exit"
       ELSE /\ pc' = "open"
            /\ UNCHANGED <<stdout, status>>
    /\ UNCHANGED <<argc, input, writable, img, handle, transparent_img, output,
                   error, rgb, result>>

\* mutant: a failure to open is swallowed and the run goes on without an image
Open_FailureSwallowed ==
    /\ pc = "open"
    /\ IF input.recognized
       THEN /\ img' = input.image
            /\ handle' = "open"
       ELSE UNCHANGED <<img, handle>>
    /\ pc' = "check"
    /\ UNCHANGED <<argc, input, writable, transparent_img, stdout, output, error,
                   status, rgb, result>>

\* with Image.open(input_file) as img
Open ==
    /\ pc = "open"
    /\ IF input.recognized
       THEN /\ img' = input.image
            /\ handle' = "open"
            /\ pc' = "check"
            /\ UNCHANGED <<error, status>>
       ELSE /\ Raise("decode")
            /\ UNCHANGED <<img, handle>>
    /\ UNCHANGED <<argc, input, writable, transparent_img, stdout, output, rgb, result>>

\* the transparency check and its warning
Warn ==
    /\ pc = "check"
    /\ stdout' = IF HasTransparency(img) THEN Append(stdout, "warning") ELSE stdout
    /\ pc' = "process"
    /\ UNCHANGED <<argc, input, writable, img, handle, transparent_img, output,
                   error, status, rgb, result>>

\* list(calculate_transparency(*rgb) for rgb in rgb_img.getdata())
Pixels(rgb_img) ==
    [i \in 1..Len(rgb_img.data) |->
        calculate_transparency(rgb_img.data[i][1], rgb_img.data[i][2], rgb_img.data[i][3])]

\* convert, the per-pixel loop, Image.new and putdata; convert loads the
\* pixel data and raises if the file is cut short
Process ==
    /\ pc = "process"
    /\ LET pixels == Pixels(ConvertRGB(img))
       IN  IF input.truncated
           THEN /\ Raise("decode")
                /\ handle' = "closed"
                /\ UNCHANGED transparent_img
           ELSE IF \E i \in 1..Len(pixels) : pixels[i] = ZeroDivisionError
           THEN /\ Raise("ZeroDivisionError")
                /\ handle' = "closed"
                /\ UNCHANGED transparent_img
           ELSE /\ transparent_img' = PutData(ImageNew(img.size), pixels)
                /\ pc' = "save"
                /\ UNCHANGED <<handle, error, status>>
    /\ UNCHANGED <<argc, input, writable, img, stdout, output, rgb, result>>

\* transparent_img.save(output_file), then the with block closes img
Save ==
    /\ pc = "save"
    /\ handle' = "closed"
    /\ IF writable
       THEN /\ output' = transparent_img
            /\ pc' = "print"
            /\ UNCHANGED <<error, status>>
       ELSE /\ Raise("encode")
            /\ UNCHANGED output
    /\ UNCHANGED <<argc, input, writable, img, transparent_img, stdout, rgb, result>>

\* print("Conversion completed. Output saved as:", output_file)
Complete ==
    /\ pc = "print"
    /\ stdout' = Append(stdout, "completed")
    /\ status' = 0
    /\ pc' = "exit"
    /\ UNCHANGED <<argc, input, writable, img, handle, transparent_img, output,
                   error, rgb, result>>

Next == Main \/ Open \/ Warn \/ Process \/ Save \/ Complete

Spec == Init /\ [][Next]_vars

(***************************************************************************)
(* calculate_transparency alone, on every pixel of the inputs below        *)
(***************************************************************************)
\* a channel is an 8-bit value
MaxChannel == 255

Channels == 0..MaxChannel

SampleMins == {0, 5, 85, 128, 253, 255}

\* every red and green against a blue of 255, every blue against a few equal
\* reds and greens, and the colours of the pipeline's images
PixelInputs ==
    (Channels \X Channels \X {MaxChannel})
        \cup {<<m, m, v>> : m \in SampleMins, v \in Channels}
        \cup ColorSamples

InitPixel ==
    /\ pc = "call"
    /\ rgb \in PixelInputs
    /\ result = NoCall
    /\ argc = 0
    /\ input \in {[recognized |-> FALSE, truncated |-> FALSE, image |-> NoImage]}
    /\ writable = FALSE
    /\ img = NoImage
    /\ handle = "none"
    /\ transparent_img = NoImage
    /\ stdout = <<>>
    /\ output = NoImage
    /\ error = "none"
    /\ status = 0

Call ==
    /\ pc = "call"
    /\ result' = calculate_transparency(rgb[1], rgb[2], rgb[3])
    /\ pc' = "return"
    /\ UNCHANGED <<argc, input, writable, img, handle, transparent_img, stdout,
                   output, error, status, rgb>>

NextPixel == Call

SpecPixel == InitPixel /\ [][NextPixel]_vars

(***************************************************************************)
(* Properties of calculate_transparency, under SpecPixel                   *)
(***************************************************************************)
Returned == pc = "return" /\ Len(result) = 4

\* the least of the three input channels
MinIn ==
    CHOOSE m \in {rgb[1], rgb[2], rgb[3]} : \A x \in {rgb[1], rgb[2], rgb[3]} : m <= x

Abs(x) == IF x < 0 THEN -x ELSE x

\* n / d for d > 0, rounded to the nearest integer, a half rounded up
RoundHalfUp(n, d) == (2 * n + d) \div (2 * d)

\* round(c * a/255 + 255 * (1 - a/255)): colour c at opacity a/255 over white
Recomposite(c, a) == RoundHalfUp(c * a + 255 * (255 - a), 255)

\* C1: whenever the call returns (R, G, B, A) with A > 0, compositing each
\* recovered channel over white at opacity A/255 and rounding gives back the
\* input channel within +/-1.
C1_RoundTrip ==
    (Returned /\ result[4] > 0) =>
        \A k \in 1..3 : Abs(Recomposite(result[k], result[4]) - rgb[k]) <= 1

C1_Witness ==
    Returned /\ rgb = <<30, 5, 255>> /\ result = <<25, 0, 255, 250>>

\* the exact value of (v - (1 - ratio) * 255) / ratio for ratio = alpha / 255,
\* as the fraction ExactNum / alpha
ExactNum(v, alpha) == (v * 255 - (255 - alpha) * 255) * 255

ExactDen(alpha) == alpha * 255

\* C2: when min(r, g, b) < 255, each recovered channel is the exact value
\* (v - (1 - ratio) * 255) / ratio rounded to the nearest integer, a value
\* exactly halfway between two integers rounded up.
C2_RoundHalfUp ==
    (pc = "return" /\ MinIn < 255) =>
        /\ Len(result) = 4
        /\ \A k \in 1..3 :
             result[k] = RoundHalfUp(ExactNum(rgb[k], 255 - MinIn), ExactDen(255 - MinIn))

\* C3: all four components of the returned tuple lie in 0..255.
C3_OutputRange ==
    pc = "return" => (Len(result) = 4 /\ \A k \in 1..4 : result[k] \in 0..255)

C3_Witness ==
    Returned /\ rgb = <<254, 253, 255>> /\ result = <<128, 0, 255, 2>>

\* C4: the call returns a tuple of four for every input, it never raises
\* ZeroDivisionError, and it returns exactly (0, 0, 0, 0) when the minimum
\* channel is 255.
C4_ZeroAlphaTotal ==
    pc = "return" =>
        /\ result # ZeroDivisionError
        /\ Len(result) = 4
        /\ (MinIn = 255 => result = <<0, 0, 0, 0>>)

C4_Witness ==
    pc = "return" /\ rgb = <<255, 255, 255>> /\ result = <<0, 0, 0, 0>>

\* C5: when the minimum channel is 0, alpha is 255 and the recovered colour
\* is the input colour.
C5_OpaquePassThrough ==
    (pc = "return" /\ MinIn = 0) => result = <<rgb[1], rgb[2], rgb[3], 255>>

C5_Witness ==
    pc = "return" /\ rgb = <<0, 200, 255>> /\ result = <<0, 200, 255, 255>>

\* C6: when the minimum channel is below 255, alpha is 255 - min, every
\* channel equal to the minimum is recovered as 0 and every channel equal to
\* 255 is recovered as 255.
C6_AlphaAndExtremes ==
    (pc = "return" /\ MinIn < 255) =>
        /\ Len(result) = 4
        /\ result[4] = 255 - MinIn
        /\ \A k \in 1..3 :
             /\ rgb[k] = MinIn => result[k] = 0
             /\ rgb[k] = 255 => result[k] = 255

C6_Witness ==
    pc = "return" /\ rgb = <<255, 128, 128>> /\ result = <<255, 0, 0, 127>>

(***************************************************************************)
(* Properties of the pipeline and the entry point, under Spec              *)
(***************************************************************************)
Printed(line) == \E i \in 1..Len(stdout) : stdout[i] = line

Count(line) == Cardinality({i \in 1..Len(stdout) : stdout[i] = line})

DecodeFails == argc = 2 /\ (~input.recognized \/ input.truncated)

DecodeSucceeds == argc = 2 /\ input.recognized /\ ~input.truncated

\* C7: a written output has the input's width and height, and its pixel at
\* each row-major position is calculate_transparency of the RGB-converted
\* input pixel at that position (so it depends on no other pixel).
C7_GridPreserved ==
    output # NoImage =>
        /\ output.size = input.image.size
        /\ Len(output.data) = input.image.size[1] * input.image.size[2]
        /\ \A i \in 1..Len(output.data) :
             LET px == ConvertRGB(input.image).data[i]
             IN  output.data[i] = calculate_transparency(px[1], px[2], px[3])

C7_Witness ==
    /\ output # NoImage
    /\ output.size = <<2, 1>>
    /\ input.image.mode = "RGBA"
    /\ output.data = <<<<0, 0, 0, 0>>, <<255, 0, 0, 127>>>>

\* C8: when opening or decoding the input fails, the failure ends the run
\* with a non-zero status, save is never reached, no output is written and
\* the completion message is not printed; and the completion message is only
\* ever printed once the output has been saved.
C8_DecodeFailure ==
    /\ DecodeFails =>
        /\ pc \notin {"save", "print"}
        /\ output = NoImage
        /\ ~Printed("completed")
        /\ pc = "exit" => (error = "decode" /\ status # 0)
    /\ Printed("completed") => (output # NoImage /\ error = "none")

C8_Witness ==
    /\ pc = "exit"
    /\ input.truncated
    /\ error = "decode"
    /\ stdout = <<"warning">>

\* the decoded image carries transparency: mode RGBA or LA, or mode P with a
\* transparency entry
CarriesTransparency ==
    \/ input.image.mode = "RGBA"
    \/ input.image.mode = "LA"
    \/ (input.image.mode = "P" /\ input.image.transparency)

\* The warning of a run whose input decodes: none before the check, and from
\* the check on exactly one if the image carries transparency, else none; an
\* output is only ever written after that.
WarnedOnceIffTransparent ==
    /\ pc \in {"main", "open", "check"} => Count("warning") = 0
    /\ pc \notin {"main", "open", "check"} =>
         Count("warning") = IF CarriesTransparency THEN 1 ELSE 0
    /\ output # NoImage => pc \in {"print", "exit"}

\* C9 as stated: in every run whose input decodes, the warning is printed
\* exactly once, before the output is written, iff the image carries
\* transparency, and the run goes on to write an RGBA output of the input's
\* dimensions.
C9_AlwaysWrites ==
    DecodeSucceeds =>
        /\ WarnedOnceIffTransparent
        /\ pc = "exit" => (output.mode = "RGBA" /\ output.size = input.image.size)

\* C9 as amended: in every run whose input decodes, the warning is printed
\* exactly once, before the output is written, iff the image carries
\* transparency; warned or not, the run goes on to build the RGBA image of
\* the input's dimensions and to save it, which writes that image unless the
\* save itself fails, and then the run ends with the save's error and no
\* output.
C9_NonFatalWarning ==
    DecodeSucceeds =>
        /\ WarnedOnceIffTransparent
        /\ pc \in {"save", "print", "exit"} =>
             (transparent_img.mode = "RGBA" /\ transparent_img.size = input.image.size)
        /\ pc = "exit" =>
             IF writable
             THEN output = transparent_img /\ error = "none" /\ status = 0
             ELSE output = NoImage /\ error = "encode" /\ status # 0

C9_Witness ==
    /\ pc = "exit"
    /\ input.image.mode = "P"
    /\ input.image.transparency
    /\ input.image.size = <<1, 1>>
    /\ stdout = <<"warning", "completed">>
    /\ output.mode = "RGBA"
    /\ output.size = <<1, 1>>

\* C10: with any number of arguments other than two the run prints the usage
\* message and exits with a non-zero status; it opens no input, writes no
\* output and prints no completion message.
C10_ArgumentGuard ==
    argc # 2 =>
        /\ pc \in {"main", "exit"}
        /\ img = NoImage
        /\ handle = "none"
        /\ output = NoImage
        /\ ~Printed("completed")
        /\ pc = "exit" => (stdout = <<"usage">> /\ status # 0)

C10_Witness ==
    /\ argc = 3
    /\ pc = "exit"
    /\ stdout = <<"usage">>
    /\ status = 1

============================================================================
